---- MODULE Spec2Model ----
(***************************************************************************)
(* A model of hawc_hal's HAL plugin (src/hawc_hal/HAL.py): the cache of    *)
(* convolved sources, the selection of active analysis bins, the Poisson   *)
(* log-likelihood with its bias terms, and the simulation of datasets on   *)
(* a cached host instance.                                                 *)
(*                                                                         *)
(* Counts are naturals.  Logarithms are natural logarithms scaled by 1000  *)
(* and rounded (LnTable), so every likelihood value is an integer number   *)
(* of thousandths.                                                         *)
(***************************************************************************)
EXTENDS Integers, Sequences, FiniteSets, TLC

\* ------------------------------------------------------------------ bounds
NBins == 3       \* len(self._maptree): analysis bins of the dataset
NPix == 2        \* active pixels of the ROI in every analysis bin
MaxCount == 2    \* largest count in a loaded map and largest Poisson draw
MaxSrc == 1      \* largest number of sources of one kind the caller's edits reach
MaxFlux == 4     \* largest value of a cell of a cached flux grid

\* The largest side of a grid that is interpolated
MaxSide == 2

\* Target coordinates are multiples of 1 / Resolution
Resolution == 2

\* ------------------------------------------------------------- basic sets
Bins == 0..(NBins - 1)
Pixels == 1..NPix
\* The flat-sky grid covers the model radius, which is larger than the data
\* radius: it has one cell more than there are scored pixels.
Cells == 1..(NPix + 1)
\* The likelihood model objects of the session: model 1 is the one the caller
\* edits (sources added and removed), model 2 a second, fixed model.
ModelIds == {1, 2}
EditedModels == {1}
\* Id of the model object that copy.deepcopy makes for the simulation host.
CopiedModel == 0
Instances == {"self", "clone"}
Names == {"HAWC", "sim"}
\* Arguments tried for set_active_measurements: one below and one above the
\* valid plane indices.
BinArgs == (0 - 1)..NBins
\* The pairs (bin_id_min, bin_id_max) tried: every pair of valid indices,
\* and pairs with the lower, the upper or both indices out of range
ActiveArgs ==
    (Bins \X Bins)
    \cup {<<0 - 1, 0>>, <<0, NBins>>, <<NBins - 1, NBins>>, <<0 - 1, NBins>>}

\* Python's None and a present value.
None == [some |-> FALSE]
Some(x) == [some |-> TRUE, v |-> x]

\* Python's range(a, b), as the set of its elements.
Range(a, b) == a..(b - 1)

RECURSIVE SumOver(_, _)
\* sum of f[x] for x in the finite set S
SumOver(f, S) ==
    IF S = {} THEN 0
    ELSE LET x == CHOOSE y \in S : TRUE IN f[x] + SumOver(f, S \ {x})

\* ------------------------------------------------------------ likelihood
\* 1000 * ln(n), rounded, for n = 1..64
LnTable ==
    << 0, 693, 1099, 1386, 1609, 1792, 1946, 2079, 2197, 2303, 2398, 2485,
       2565, 2639, 2708, 2773, 2833, 2890, 2944, 2996, 3045, 3091, 3135, 3178,
       3219, 3258, 3296, 3332, 3367, 3401, 3434, 3466, 3497, 3526, 3555, 3584,
       3611, 3638, 3664, 3689, 3714, 3738, 3761, 3784, 3807, 3829, 3850, 3871,
       3892, 3912, 3932, 3951, 3970, 3989, 4007, 4025, 4043, 4060, 4078, 4094,
       4111, 4127, 4143, 4159 >>

\* np.log of a predicted count, in thousandths
Ln(n) == LnTable[n]

RECURSIVE logfactorial(_)
\* threeML's logfactorial: ln(n!), in thousandths
logfactorial(n) == IF n <= 1 THEN 0 ELSE Ln(n) + logfactorial(n - 1)

\* A model map is either the scalar 0.0 or an array over the pixels.
Scalar0 == [scalar |-> TRUE]
Array(a) == [scalar |-> FALSE, a |-> a]
ModelAt(m, p) == IF m.scalar THEN 0 ELSE m.a[p]

\* log_likelihood(observed_counts, expected_bkg_counts, expected_model_counts)
\* = np.sum(observed * np.log(predicted) - predicted), in thousandths
log_likelihood(obs, bkg, model) ==
    SumOver([p \in Pixels |->
                obs[p] * Ln(bkg[p] + ModelAt(model, p))
                - 1000 * (bkg[p] + ModelAt(model, p))],
            Pixels)

\* np.maximum(obs - bkg, 1e-30) added to bkg, as float64 rounds it: the
\* floor of 1e-30 is absorbed by any background of at least one count.
SaturatedPredicted(obs, bkg) ==
    [p \in Pixels |-> IF obs[p] - bkg[p] > 0 THEN obs[p] ELSE bkg[p]]

\* sat_model of _compute_likelihood_biases, as the model map whose
\* prediction is SaturatedPredicted
sat_model(obs, bkg) ==
    Array([p \in Pixels |-> SaturatedPredicted(obs, bkg)[p] - bkg[p]])

\* this_log_factorial of _compute_likelihood_biases
this_log_factorial(obs) ==
    SumOver([p \in Pixels |-> logfactorial(obs[p])], Pixels)

\* The value _compute_likelihood_biases stores in
\* _saturated_model_like_per_maptree[i]
saturated_model_like(obs, bkg) ==
    log_likelihood(obs, bkg, sat_model(obs, bkg)) - this_log_factorial(obs)

\* ------------------------------------------------- sources and expectation
\* data_analysis_bin.n_transits: the exposure of analysis bin i
n_transits(i) == 1 + (i % 2)

\* self._flat_sky_projection.project_plane_pixel_area
project_plane_pixel_area == 2

\* hp.nside2pixarea(data_analysis_bin.nside, degrees=True)
nside2pixarea == 1

\* The entry set_model builds for the k-th source of a kind of model m
ConvolvedSource(kind, m, k) == [kind |-> kind, model |-> m, index |-> k]

\* The flat-sky flux grid an entry holds for a bin when it has been built.
\* A point source lights one cell; the first extended source lights the two
\* outermost cells, the second the outermost one, and so on in turn.
built_source_map(entry, i) ==
    [c \in Cells |->
        IF entry.kind = "point"
        THEN (IF c = ((entry.index - 1) % NPix) + 1
              THEN project_plane_pixel_area * entry.model ELSE 0)
        ELSE (IF c >= NPix + ((entry.index - 1) % 2)
              THEN project_plane_pixel_area ELSE 0)]

\* convolved_source.source_maps of a new entry: its grid for every bin
source_maps_of(entry) == [i \in Bins |-> built_source_map(entry, i)]

\* this_convolved_source.get_source_map(energy_bin_id): an entry is a
\* cached mapping from the bin to its flux grid, and the call hands out the
\* grid the entry holds
get_source_map(source_maps, i) == source_maps[i]

\* PSFConvolutor.extended_source_image: the PSF moves flux to the
\* neighbouring cell (a linear map on grids that is not the identity)
extended_source_image(grid) ==
    [c \in Cells |-> grid[(c % (NPix + 1)) + 1]]

ZeroGrid == [c \in Cells |-> 0]

RECURSIVE SumMaps(_, _, _)
\* the sum of the grids the first n entries of a cache hold for bin i
SumMaps(maps, n, i) ==
    IF n = 0 THEN ZeroGrid
    ELSE LET rest == SumMaps(maps, n - 1, i)
             this == get_source_map(maps[n], i)
         IN [c \in Cells |-> rest[c] + this[c]]

\* self._flat_sky_to_healpix_transform[energy_bin_id](map, fill_value=0.0):
\* pixel p of the ROI samples cell p of the flat-sky grid
flat_sky_to_healpix_transform(grid) == [p \in Pixels |-> grid[p]]

\* _get_expectation raises when it indexes a cache beyond its end, or the
\* PSF convolutors while they are None
ExpectationRaises(I, n_point_sources, n_ext_sources) ==
    \/ n_point_sources > Len(I.convolved_point_sources)
    \/ n_ext_sources > Len(I.convolved_ext_sources)
    \/ (n_ext_sources > 0 /\ ~I.psf_convolutors.some)

\* What the loops of _get_expectation raise, "" when they raise nothing: an
\* index beyond the end of a cache is an IndexError, the subscript of
\* self._psf_convolutors while it is None a TypeError
expectation_error(I, n_point_sources, n_ext_sources) ==
    IF n_point_sources > Len(I.convolved_point_sources) THEN "IndexError"
    ELSE IF n_ext_sources > Len(I.convolved_ext_sources) THEN "IndexError"
    ELSE IF n_ext_sources > 0 /\ ~I.psf_convolutors.some THEN "TypeError"
    ELSE ""

\* The number of extended-source entries whose grids one call of
\* _get_expectation has added up when it returns or raises
ext_sources_summed(I, n_point_sources, n_ext_sources) ==
    IF n_point_sources > Len(I.convolved_point_sources) THEN 0
    ELSE IF n_ext_sources > Len(I.convolved_ext_sources)
    THEN Len(I.convolved_ext_sources)
    ELSE n_ext_sources

\* The grids of the extended-source entries after _get_expectation has run
\* for the bins: this_ext_model_map is the grid the first entry handed out,
\* and `+=` adds the grids of the other entries to it in place
ext_source_maps_after(I, bins, n_point_sources, n_ext_sources) ==
    LET n == ext_sources_summed(I, n_point_sources, n_ext_sources) IN
    [k \in 1..Len(I.ext_source_maps) |->
        [i \in Bins |->
            IF k = 1 /\ n >= 2 /\ i \in bins
            THEN SumMaps(I.ext_source_maps, n, i)
            ELSE I.ext_source_maps[k][i]]]

\* The bins a loop over `bins` calls _get_expectation for: all of them, or
\* the first one only when the call raises
evaluated_bins(bins, raises) ==
    IF raises /\ bins # {}
    THEN {CHOOSE i \in bins : \A j \in bins : i <= j}
    ELSE bins

\* The instance after a loop over `bins` has called _get_expectation
after_expectations(I, bins, n_point_sources, n_ext_sources) ==
    [I EXCEPT !.ext_source_maps =
        ext_source_maps_after(
            I,
            evaluated_bins(bins,
                expectation_error(I, n_point_sources, n_ext_sources) # ""),
            n_point_sources, n_ext_sources)]

\* No cell of a cached grid of the instance exceeds MaxFlux
FluxBounded(I) ==
    \A k \in 1..Len(I.ext_source_maps) : \A i \in Bins : \A c \in Cells :
        I.ext_source_maps[k][i][c] <= MaxFlux

\* psf_convolutor_calls convolving every extended source on its own
psf_convolutor_calls_per_source(I, i, n_ext_sources) ==
    [k \in 1..n_ext_sources |-> get_source_map(I.ext_source_maps[k], i)]

\* The grids one call of _get_expectation passes to
\* self._psf_convolutors[energy_bin_id].extended_source_image, in the order
\* of the calls
psf_convolutor_calls(I, i, n_ext_sources) ==
    IF n_ext_sources > 0
    THEN << SumMaps(I.ext_source_maps, n_ext_sources, i) >>
    ELSE << >>

RECURSIVE SumImages(_)
\* the sum of the convolved images of the grids passed to the convolutor
SumImages(calls) ==
    IF calls = << >> THEN ZeroGrid
    ELSE LET rest == SumImages(Tail(calls))
             this == extended_source_image(Head(calls))
         IN [c \in Cells |-> rest[c] + this[c]]

\* HAL._get_expectation(data_analysis_bin, energy_bin_id, n_point_sources,
\* n_ext_sources), where it does not raise
get_expectation(I, i, n_point_sources, n_ext_sources) ==
    IF n_point_sources = 0 /\ n_ext_sources = 0
    THEN Scalar0
    ELSE LET pts == SumMaps(I.point_source_maps, n_point_sources, i)
             ext == SumImages(psf_convolutor_calls(I, i, n_ext_sources))
             this_model_map ==
                 [c \in Cells |-> pts[c] * n_transits(i) + ext[c] * n_transits(i)]
             brightness ==
                 [c \in Cells |-> this_model_map[c] \div project_plane_pixel_area]
             hpx == flat_sky_to_healpix_transform(brightness)
         IN Array([p \in Pixels |-> hpx[p] * nside2pixarea])

\* ------------------------------------------------------------------ state
VARIABLES
    hal,        \* the analysis instances: the caller's and its deep copy
    modelSrc,   \* the source counts of every likelihood model object
    parallel,   \* parallel_client.is_parallel_computation_active()
    last,       \* the call that returned last, with its arguments and result
    _instances, \* response.py's cache of responses, by file name
    heap,       \* the HAWCResponse objects built so far, in order of creation
    interpolator \* the FastLinearInterpolator built last, or None

vars == <<hal, modelSrc, parallel, last, _instances, heap, interpolator>>

\* The state of the analysis instances, and the state of response.py
analysis_state == <<hal, modelSrc, parallel>>
response_state == <<_instances, heap>>
interpolation_state == <<interpolator>>

\* A slot of hal that holds no instance yet
NoInstance == [exists |-> FALSE]

\* One analysis bin of the map tree
DataAnalysisBin(obs, bkg) == [observation_map |-> obs, background_map |-> bkg]

\* HAL._compute_likelihood_biases: both bias terms of every bin, from the
\* bin's maps
log_factorials_of(maptree) ==
    [i \in Bins |-> this_log_factorial(maptree[i].observation_map)]

saturated_model_like_per_maptree_of(maptree) ==
    [i \in Bins |-> saturated_model_like(maptree[i].observation_map,
                                          maptree[i].background_map)]

compute_likelihood_biases(I) ==
    [I EXCEPT !.log_factorials = log_factorials_of(I.maptree),
              !.saturated_model_like_per_maptree =
                  saturated_model_like_per_maptree_of(I.maptree)]

\* The map trees an analysis is constructed on.  Observed counts are
\* positive everywhere (HAL.py:79-80), and so is the background estimate.
\* A dataset is drawn by two parameters; its counts differ from bin to bin
\* and from pixel to pixel, and the observation lies above, at and below the
\* background.
MapTreeOf(c, b) ==
    [i \in Bins |->
        DataAnalysisBin(
            [p \in Pixels |-> 1 + ((c + i + p) % MaxCount)],
            [p \in Pixels |-> 1 + ((b + i) % MaxCount)])]

MapTrees ==
    { MapTreeOf(c, b) : c \in {0, 1}, b \in {0, 1} }

\* The datasets of the analyses that simulate
SimMapTrees == { MapTreeOf(c, 0) : c \in {0, 1} }

\* The instance HAL.__init__ returns
NewHAL(name, maptree) ==
    compute_likelihood_biases(
        [exists |-> TRUE,
         name |-> name,
         maptree |-> maptree,
         likelihood_model |-> None,
         convolved_point_sources |-> <<>>,
         convolved_ext_sources |-> <<>>,
         point_source_maps |-> <<>>,
         ext_source_maps |-> <<>>,
         active_planes |-> Range(0, NBins),
         psf_convolutors |-> None,
         log_factorials |-> [i \in Bins |-> 0],
         saturated_model_like_per_maptree |-> [i \in Bins |-> 0],
         clone |-> None])

\* The record of a call: op is "" before the first call, raised is "" when
\* the call returned, value is None when it returned nothing
Call(op, inst, raised, value, a, b) ==
    [op |-> op, inst |-> inst, raised |-> raised, value |-> value,
     a |-> a, b |-> b]

NoCall == Call("", "self", "", None, 0, 0)

Live(h) == hal[h].exists

\* --------------------------------------------------------------- set_model
\* ConvolvedSourcesContainer after reset() and one append per source
FilledCache(kind, m, n) == [k \in 1..n |-> ConvolvedSource(kind, m, k)]

\* The grids the entries of a cache hold, entry by entry
FilledMaps(cache) == [k \in 1..Len(cache) |-> source_maps_of(cache[k])]

\* HAL._setup_psf_convolutors: one PSFConvolutor per central response bin
setup_psf_convolutors == Some([i \in Bins |-> "PSFConvolutor"])

\* set_model_on without the two reset() calls: the new entries are appended
\* to what the caches held
set_model_on_no_reset(I, m, src) ==
    [I EXCEPT !.likelihood_model = Some(m),
              !.convolved_point_sources = @ \o FilledCache("point", m, src.npts),
              !.convolved_ext_sources = @ \o FilledCache("ext", m, src.next),
              !.point_source_maps =
                  @ \o FilledMaps(FilledCache("point", m, src.npts)),
              !.ext_source_maps =
                  @ \o FilledMaps(FilledCache("ext", m, src.next)),
              !.psf_convolutors =
                  IF src.next > 0 THEN setup_psf_convolutors ELSE @]

\* set_model_on that also drops the simulation cache of the instance
set_model_on_drops_clone(I, m, src) ==
    [I EXCEPT !.likelihood_model = Some(m),
              !.convolved_point_sources = FilledCache("point", m, src.npts),
              !.convolved_ext_sources = FilledCache("ext", m, src.next),
              !.point_source_maps =
                  FilledMaps(FilledCache("point", m, src.npts)),
              !.ext_source_maps =
                  FilledMaps(FilledCache("ext", m, src.next)),
              !.psf_convolutors =
                  IF src.next > 0 THEN setup_psf_convolutors ELSE @,
              !.clone = None]

\* set_model_trace with the PSF convolutors set up after the extended
\* sources have been appended
set_model_trace_helpers_last(I, m, src) ==
    LET reset == [I EXCEPT !.likelihood_model = Some(m),
                           !.convolved_point_sources = <<>>,
                           !.convolved_ext_sources = <<>>,
                           !.point_source_maps = <<>>,
                           !.ext_source_maps = <<>>]
        points == [reset EXCEPT
                      !.convolved_point_sources =
                          FilledCache("point", m, src.npts),
                      !.point_source_maps =
                          FilledMaps(FilledCache("point", m, src.npts))]
        appended(n) == [points EXCEPT
                           !.convolved_ext_sources = FilledCache("ext", m, n),
                           !.ext_source_maps =
                               FilledMaps(FilledCache("ext", m, n))]
    IN <<reset, points>>
       \o (IF src.next > 0
           THEN [n \in 1..src.next |-> appended(n)]
                \o << [appended(src.next) EXCEPT
                          !.psf_convolutors = setup_psf_convolutors] >>
           ELSE << >>)

\* The instance after each statement of HAL.set_model, in the order of the
\* code: the model is assigned and the caches are reset, the point sources
\* are appended and, if the model has an extended source, the PSF
\* convolutors are set up and then the extended sources are appended one by
\* one.  I is the instance, m the model object, src its current sources.
set_model_trace(I, m, src) ==
    LET reset == [I EXCEPT !.likelihood_model = Some(m),
                           !.convolved_point_sources = <<>>,
                           !.convolved_ext_sources = <<>>,
                           !.point_source_maps = <<>>,
                           !.ext_source_maps = <<>>]
        points == [reset EXCEPT
                      !.convolved_point_sources =
                          FilledCache("point", m, src.npts),
                      !.point_source_maps =
                          FilledMaps(FilledCache("point", m, src.npts))]
        helpers == [points EXCEPT !.psf_convolutors = setup_psf_convolutors]
        appended(n) == [helpers EXCEPT
                           !.convolved_ext_sources = FilledCache("ext", m, n),
                           !.ext_source_maps =
                               FilledMaps(FilledCache("ext", m, n))]
    IN <<reset, points>>
       \o (IF src.next > 0
           THEN <<helpers>> \o [n \in 1..src.next |-> appended(n)]
           ELSE << >>)

\* HAL.set_model, on the instance record I with model object m, whose
\* current sources are counted by src: the instance after the last statement
set_model_on(I, m, src) ==
    LET trace == set_model_trace(I, m, src) IN trace[Len(trace)]

set_model(h, m) ==
    /\ Live(h)
    /\ hal' = [hal EXCEPT ![h] = set_model_on(hal[h], m, modelSrc[m])]
    /\ last' = Call("set_model", h, "", None, m, 0)
    /\ UNCHANGED <<modelSrc, parallel>>
    /\ UNCHANGED <<response_state, interpolation_state>>

\* The caller adds a source of a kind to a model object it owns, or removes
\* one, without telling the plugin (HAL.py:372)
add_source(m, kind) ==
    /\ modelSrc[m][kind] < MaxSrc
    /\ modelSrc' = [modelSrc EXCEPT ![m][kind] = @ + 1]
    /\ last' = Call("add_source", "self", "", None, m, 0)
    /\ UNCHANGED <<hal, parallel>>
    /\ UNCHANGED <<response_state, interpolation_state>>

remove_source(m, kind) ==
    /\ modelSrc[m][kind] > 0
    /\ modelSrc' = [modelSrc EXCEPT ![m][kind] = @ - 1]
    /\ last' = Call("remove_source", "self", "", None, m, 0)
    /\ UNCHANGED <<hal, parallel>>
    /\ UNCHANGED <<response_state, interpolation_state>>

\* ------------------------------------------------- set_active_measurements
\* LegalBins checking the lower end only
LegalBins_min_only(bin_id_min, bin_id_max) ==
    bin_id_min \in Range(0, NBins)

\* The assertion of HAL.set_active_measurements
LegalBins(bin_id_min, bin_id_max) ==
    bin_id_min \in Range(0, NBins) /\ bin_id_max \in Range(0, NBins)

\* new_active_planes adding the range to the selection instead of replacing it
new_active_planes_incremental(old, bin_id_min, bin_id_max) ==
    old \cup Range(bin_id_min, bin_id_max + 1)

\* The selection HAL.set_active_measurements assigns
new_active_planes(old, bin_id_min, bin_id_max) ==
    Range(bin_id_min, bin_id_max + 1)

set_active_measurements(h, bin_id_min, bin_id_max) ==
    /\ Live(h)
    /\ IF LegalBins(bin_id_min, bin_id_max)
       THEN /\ hal' = [hal EXCEPT ![h].active_planes =
                          new_active_planes(@, bin_id_min, bin_id_max)]
            /\ last' = Call("set_active_measurements", h, "",
                            None, bin_id_min, bin_id_max)
       ELSE /\ hal' = hal
            /\ last' = Call("set_active_measurements", h, "AssertionError",
                            None, bin_id_min, bin_id_max)
    /\ UNCHANGED <<modelSrc, parallel>>
    /\ UNCHANGED <<response_state, interpolation_state>>

\* ------------------------------------------------------------ get_log_like
\* CacheConsistent comparing the point sources only
CacheConsistent_points_only(I, src) ==
    src.npts = Len(I.convolved_point_sources)

\* The assertion of HAL.get_log_like: the model's source counts are those
\* of the caches
CacheConsistent(I, src) ==
    /\ src.npts = Len(I.convolved_point_sources)
    /\ src.next = Len(I.convolved_ext_sources)

\* ScoredBins without the skip of the inactive bins
ScoredBins_all(I) == Bins

\* The bins the loop of get_log_like does not skip
ScoredBins(I) == {i \in Bins : i \in I.active_planes}

\* BinLogLike without the log-factorial term
BinLogLike_no_log_factorial(I, i, this_model_map_hpx) ==
    log_likelihood(I.maptree[i].observation_map,
                   I.maptree[i].background_map,
                   this_model_map_hpx)
    - I.saturated_model_like_per_maptree[i]

\* What one bin adds to total_log_like, given the bin's model map
BinLogLike(I, i, this_model_map_hpx) ==
    log_likelihood(I.maptree[i].observation_map,
                   I.maptree[i].background_map,
                   this_model_map_hpx)
    - I.log_factorials[i] - I.saturated_model_like_per_maptree[i]

\* The loop of HAL.get_log_like, given every bin's model map
ScoreWith(I, model_maps) ==
    SumOver([i \in Bins |-> BinLogLike(I, i, model_maps[i])], ScoredBins(I))

\* total_log_like of HAL.get_log_like: the model maps are the expectations
total_log_like(I, src) ==
    ScoreWith(I, [i \in Bins |-> get_expectation(I, i, src.npts, src.next)])

get_log_like(h) ==
    /\ Live(h)
    /\ LET I == hal[h] IN
       IF ~I.likelihood_model.some
       THEN /\ last' = Call("get_log_like", h, "AttributeError", None, 0, 0)
            /\ hal' = hal
       ELSE LET src == modelSrc[I.likelihood_model.v]
                after == after_expectations(I, ScoredBins(I), src.npts, src.next)
            IN
            IF ~CacheConsistent(I, src)
            THEN /\ last' = Call("get_log_like", h, "AssertionError", None, 0, 0)
                 /\ hal' = hal
            ELSE /\ FluxBounded(after)
                 /\ hal' = [hal EXCEPT ![h] = after]
                 /\ IF ScoredBins(I) # {}
                       /\ ExpectationRaises(I, src.npts, src.next)
                    THEN last' = Call("get_log_like", h,
                                      expectation_error(I, src.npts, src.next),
                                      None, 0, 0)
                    ELSE last' = Call("get_log_like", h, "",
                                      Some(total_log_like(I, src)), 0, 0)
    /\ UNCHANGED <<modelSrc, parallel>>
    /\ UNCHANGED <<response_state, interpolation_state>>

\* ------------------------------------------------------- other read paths
\* n_points of HAL.get_number_of_data_points
n_points(I) ==
    SumOver([i \in Bins |-> Cardinality(DOMAIN I.maptree[i].observation_map)],
            Bins)

get_number_of_data_points(h) ==
    /\ Live(h)
    /\ last' = Call("get_number_of_data_points", h, "",
                    Some(n_points(hal[h])), 0, 0)
    /\ UNCHANGED <<hal, modelSrc, parallel>>
    /\ UNCHANGED <<response_state, interpolation_state>>

\* HAL.get_saturated_model_likelihood
saturated_model_likelihood(I) ==
    SumOver(I.saturated_model_like_per_maptree, Bins)

get_saturated_model_likelihood(h) ==
    /\ Live(h)
    /\ last' = Call("get_saturated_model_likelihood", h, "",
                    Some(saturated_model_likelihood(hal[h])), 0, 0)
    /\ UNCHANGED <<hal, modelSrc, parallel>>
    /\ UNCHANGED <<response_state, interpolation_state>>

\* ---------------------------------------------------------- specification
\* The sources of the model objects when the analysis starts
InitialSources ==
    [m \in {CopiedModel} \cup ModelIds |->
        IF m = 1 THEN [npts |-> 1, next |-> 0]
        ELSE IF m = 2 THEN [npts |-> 1, next |-> 1]
        ELSE [npts |-> 0, next |-> 0]]

Init ==
    /\ \E maptree \in MapTrees :
           hal = [h \in Instances |->
                     IF h = "self" THEN NewHAL("HAWC", maptree) ELSE NoInstance]
    /\ modelSrc = InitialSources
    /\ parallel = FALSE
    /\ last = NoCall
    /\ _instances = <<>>
    /\ heap = <<>>
    /\ interpolator = None

Next ==
    \/ \E m \in ModelIds : set_model("self", m)
    \/ \E m \in EditedModels, kind \in {"npts", "next"} : add_source(m, kind)
    \/ \E m \in EditedModels, kind \in {"npts", "next"} : remove_source(m, kind)
    \/ \E ab \in ActiveArgs : set_active_measurements("self", ab[1], ab[2])
    \/ get_log_like("self")
    \/ get_number_of_data_points("self")
    \/ get_saturated_model_likelihood("self")

Spec == Init /\ [][Next]_vars

\* --------------------------------------------------- get_simulated_dataset
\* The names given to simulated datasets
SimNames == {"sim"}

\* The arrays np.random.poisson returns for a bin are drawn from two: the
\* counts differ from pixel to pixel, each array holds a pixel with no
\* count, and one of them reaches MaxCount
DrawMaps ==
    { [p \in Pixels |-> (c + p) % (MaxCount + 1)] : c \in {MaxCount - 1, MaxCount} }

\* The list `expectations` of the first call: None for a bin that is not
\* active, model + background for an active one
first_expectations(I, src) ==
    [i \in Bins |->
        IF i \notin I.active_planes
        THEN None
        ELSE Some([p \in Pixels |->
                      ModelAt(get_expectation(I, i, src.npts, src.next), p)
                      + I.maptree[i].background_map[p]])]

\* simulation_host that never copies
simulation_host_never_copies(is_parallel) == "self"

\* The instance that hosts the simulated data: the caller itself inside a
\* parallel computation, a deep copy of it otherwise
simulation_host(is_parallel) == IF is_parallel THEN "self" ELSE "clone"

\* copy.deepcopy(self), taken while self._clone is still None: the copy owns
\* a copy of the likelihood model
deepcopy(I) == [I EXCEPT !.likelihood_model = Some(CopiedModel)]

\* The bins whose observation the loop overwrites before it returns or
\* raises: the active bins below the first active bin whose cached
\* expectation is None
first_missing(active, expectations) ==
    LET missing == {i \in active : ~expectations[i].some}
    IN IF missing = {} THEN NBins
       ELSE CHOOSE i \in missing : \A j \in missing : i <= j

\* simulated_bins without the skip of the inactive bins
simulated_bins_all(active, expectations) == Bins

simulated_bins(active, expectations) ==
    {i \in Bins : i \in active /\ i < first_missing(active, expectations)}

\* data_analysis_bin.observation_map.set_new_values(new_data), for the bins
\* of new_data
set_new_values(H, new_data) ==
    [H EXCEPT !.maptree =
        [i \in Bins |->
            IF i \in DOMAIN new_data
            THEN [@[i] EXCEPT !.observation_map = new_data[i]]
            ELSE @[i]]]

\* The end of get_simulated_dataset: the host is renamed and its bias terms
\* are recomputed
rename_and_recompute(H, name) ==
    compute_likelihood_biases([H EXCEPT !.name = name])

get_simulated_dataset(name) ==
    LET I == hal["self"] IN
    /\ IF ~I.clone.some /\ ~I.likelihood_model.some
       THEN /\ last' = Call("get_simulated_dataset", "self", "AttributeError",
                            None, 0, 0)
            /\ UNCHANGED <<hal, modelSrc>>
       ELSE IF /\ ~I.clone.some
               /\ I.active_planes \cap Bins # {}
               /\ ExpectationRaises(I, modelSrc[I.likelihood_model.v].npts,
                                    modelSrc[I.likelihood_model.v].next)
       THEN /\ last' = Call("get_simulated_dataset", "self",
                            expectation_error(
                                I, modelSrc[I.likelihood_model.v].npts,
                                modelSrc[I.likelihood_model.v].next),
                            None, 0, 0)
            /\ hal' = [hal EXCEPT !["self"] =
                          after_expectations(
                              I, I.active_planes \cap Bins,
                              modelSrc[I.likelihood_model.v].npts,
                              modelSrc[I.likelihood_model.v].next)]
            /\ FluxBounded(hal'["self"])
            /\ UNCHANGED modelSrc
       ELSE LET first == ~I.clone.some
                \* the caller after the expectations of the first block
                J == IF first
                     THEN after_expectations(
                              I, I.active_planes \cap Bins,
                              modelSrc[I.likelihood_model.v].npts,
                              modelSrc[I.likelihood_model.v].next)
                     ELSE I
                cache == IF first
                         THEN [host |-> simulation_host(parallel),
                               expectations |->
                                   first_expectations(
                                       I, modelSrc[I.likelihood_model.v])]
                         ELSE I.clone.v
                host == cache.host
                \* the instances after the first block
                caller == [J EXCEPT !.clone = Some(cache)]
                hosted == IF host = "self" THEN caller
                          ELSE IF first THEN deepcopy(J) ELSE hal[host]
                written == simulated_bins(I.active_planes, cache.expectations)
                complete == first_missing(I.active_planes, cache.expectations)
                                = NBins
            IN /\ FluxBounded(J)
               /\ \E new_data \in [written -> DrawMaps] :
                 LET drawn == set_new_values(hosted, new_data)
                     final == IF complete
                              THEN rename_and_recompute(drawn, name)
                              ELSE drawn
                 IN /\ hal' = [h \in Instances |->
                                  IF h = host THEN final
                                  ELSE IF h = "self" THEN caller
                                  ELSE hal[h]]
                    /\ modelSrc' =
                           IF first /\ host # "self"
                           THEN [modelSrc EXCEPT ![CopiedModel] =
                                    modelSrc[I.likelihood_model.v]]
                           ELSE modelSrc
                    /\ last' = IF complete
                               THEN Call("get_simulated_dataset", "self", "",
                                         Some(host), 0, 0)
                               ELSE Call("get_simulated_dataset", "self",
                                         "AttributeError", None, 0, 0)
    /\ UNCHANGED parallel
    /\ UNCHANGED <<response_state, interpolation_state>>

\* The analysis with simulations: the caller assigns models, selects bins,
\* simulates, and scores the caller and the simulated instance.  Inside a
\* parallel computation or outside of one.
SimInit ==
    /\ \E maptree \in SimMapTrees :
           hal = [h \in Instances |->
                     IF h = "self" THEN NewHAL("HAWC", maptree) ELSE NoInstance]
    /\ modelSrc = InitialSources
    /\ parallel \in BOOLEAN
    /\ last = NoCall
    /\ _instances = <<>>
    /\ heap = <<>>
    /\ interpolator = None

SimNext ==
    \/ \E m \in ModelIds : set_model("self", m)
    \/ \E a \in Bins, b \in Bins : set_active_measurements("self", a, b)
    \/ \E name \in SimNames : get_simulated_dataset(name)
    \/ \E h \in Instances : get_log_like(h)

SimSpec == SimInit /\ [][SimNext]_vars

\* ------------------------------------------------- fast_linear_interpolator
\* Coordinates and weights are exact: a number x of the code is the integer
\* x * Resolution, except for grid coordinates and vertex indices.

\* The shapes of the data, (data_shape[0], data_shape[1])
Shapes == (2..MaxSide) \X (2..MaxSide)

\* cartesian([np.arange(n0), np.arange(n1)]): the points (i, j) of the grid,
\* the last coordinate running fastest
cartesian(n0, n1) ==
    [k \in 1..(n0 * n1) |-> <<(k - 1) \div n1, (k - 1) % n1>>]

\* The index in old_coords of the grid point (i, j)
GridIndex(data_shape, i, j) == i * data_shape[2] + j

\* The cells of the grid, by their corner of least coordinates
GridCells(data_shape) ==
    (0..(data_shape[1] - 2)) \X (0..(data_shape[2] - 2))

\* The two triangles of a cell: split along the diagonal from its corner of
\* least coordinates, or along the other one
CellSimplices(data_shape, cell, diagonal) ==
    LET a == GridIndex(data_shape, cell[1], cell[2])
        b == GridIndex(data_shape, cell[1] + 1, cell[2])
        c == GridIndex(data_shape, cell[1], cell[2] + 1)
        e == GridIndex(data_shape, cell[1] + 1, cell[2] + 1)
    IN IF diagonal = 0 THEN <<(<<a, b, e>>), (<<a, e, c>>)>>
       ELSE <<(<<a, b, c>>), (<<b, e, c>>)>>

RECURSIVE SimplicesOf(_, _, _)
\* The triangles of the cells k..last, in the order of the cells
SimplicesOf(data_shape, diagonals, k) ==
    IF k >= (data_shape[1] - 1) * (data_shape[2] - 1) THEN <<>>
    ELSE LET cell == <<k \div (data_shape[2] - 1), k % (data_shape[2] - 1)>>
         IN CellSimplices(data_shape, cell, diagonals[cell])
                \o SimplicesOf(data_shape, diagonals, k + 1)

\* A list in reverse order
Reversed(list) == [k \in 1..Len(list) |-> list[Len(list) + 1 - k]]

\* The vertices of a simplex, rotated by turn places
Rotated(simplex, turn) == [k \in 1..3 |-> simplex[((k - 1 + turn) % 3) + 1]]

\* qhull.Delaunay(xy) of the grid points: the four corners of a cell lie on
\* one circle, so every cell may be split along either diagonal, and neither
\* the order of the simplices nor the order of the vertices within a simplex
\* is fixed
Delaunay(data_shape) ==
    { [points |-> cartesian(data_shape[1], data_shape[2]),
       simplices |->
           LET listed == SimplicesOf(data_shape, diagonals, 0)
               ordered == IF backwards THEN Reversed(listed) ELSE listed
           IN [k \in 1..Len(ordered) |-> Rotated(ordered[k], turn)]] :
        diagonals \in [GridCells(data_shape) -> {0, 1}],
        backwards \in BOOLEAN,
        turn \in {0, 1, 2} }

\* np.take(a, i, axis=0): a negative index counts from the end
np_take(a, i) == a[(IF i < 0 THEN Len(a) + i ELSE i) + 1]

\* tri.transform of a simplex: the inverse of the matrix T whose columns are
\* the first d vertices minus the last one, and the last vertex r.  The
\* determinant of T is 1 or -1 for a triangle of a cell, so the inverse is
\* the adjugate times the determinant.
transform(tri, simplex) ==
    LET p0 == tri.points[simplex[1] + 1]
        p1 == tri.points[simplex[2] + 1]
        r == tri.points[simplex[3] + 1]
        t11 == p0[1] - r[1]
        t12 == p1[1] - r[1]
        t21 == p0[2] - r[2]
        t22 == p1[2] - r[2]
        det == t11 * t22 - t12 * t21
    IN <<(<<det * t22, (0 - det) * t12>>),
         (<<(0 - det) * t21, det * t11>>),
         r>>

\* bary of one target: np.einsum('jk,k->j', temp[:d, :], uv - temp[d])
bary(temp, uv) ==
    LET delta == <<uv[1] - Resolution * temp[3][1],
                   uv[2] - Resolution * temp[3][2]>>
    IN <<temp[1][1] * delta[1] + temp[1][2] * delta[2],
         temp[2][1] * delta[1] + temp[2][2] * delta[2]>>

\* hstack that appends 1 - bary[0] alone
hstack_complement_of_first(b) == <<b[1], b[2], Resolution - b[1]>>

\* np.hstack((bary, 1 - bary.sum(axis=1, keepdims=True))), one row
hstack_complement(b) == <<b[1], b[2], Resolution - (b[1] + b[2])>>

\* The simplices tri.find_simplex may return for a point: one that holds the
\* point, any of them for a point on a shared edge, and -1 for a point
\* outside the triangulation
find_simplex(tri, uv) ==
    LET holding ==
            {k \in 0..(Len(tri.simplices) - 1) :
                LET w == hstack_complement(
                             bary(transform(tri, np_take(tri.simplices, k)), uv))
                IN w[1] >= 0 /\ w[2] >= 0 /\ w[3] >= 0}
    IN IF holding = {} THEN {0 - 1} ELSE holding

\* interp_weights past the triangulation and the search: vertices and weights
\* of every target
interp_weights(tri, uv, simplex) ==
    [vertices |-> [n \in 1..Len(uv) |-> np_take(tri.simplices, simplex[n])],
     weights |->
         [n \in 1..Len(uv) |->
             hstack_complement(
                 bary(transform(tri, np_take(tri.simplices, simplex[n])),
                      uv[n]))]]

\* interpolate: np.einsum('nj,nj->n', np.take(values, vtx), wts), values
\* flattened
interpolate(values, vtx, wts) ==
    [n \in 1..Len(vtx) |->
        values[vtx[n][1] + 1] * wts[n][1]
        + values[vtx[n][2] + 1] * wts[n][2]
        + values[vtx[n][3] + 1] * wts[n][3]]

\* The target points: on the grid, between its points, and up to one step of
\* 1 / Resolution outside of it on every side
Targets ==
    ((0 - 1)..((MaxSide - 1) * Resolution + 1))
        \X ((0 - 1)..((MaxSide - 1) * Resolution + 1))

\* new_coords: a target and, after it, a point next to the corner (0, 0),
\* outside or inside the grid
NewCoords ==
    { <<p, q>> : p \in Targets, q \in {<<0 - 1, 0 - 1>>, <<1, 1>>} }

\* The data that are resampled, flattened: planes a * i + b * j + c over a
\* grid of one of the shapes
Fields ==
    { [k \in 1..(shape[1] * shape[2]) |->
          coef[1] * cartesian(shape[1], shape[2])[k][1]
          + coef[2] * cartesian(shape[1], shape[2])[k][2] + coef[3]] :
        shape \in Shapes, coef \in {<<1, 0, 0>>, <<0, 1, 0>>, <<1, 1, 1>>} }

\* FastLinearInterpolator.__init__, which runs once for the object
FastLinearInterpolator_init(data_shape, new_coords) ==
    /\ ~interpolator.some
    /\ \E tri \in Delaunay(data_shape) :
           \E simplex \in [1..Len(new_coords) ->
                              UNION {find_simplex(tri, new_coords[n]) :
                                        n \in 1..Len(new_coords)}] :
               /\ \A n \in 1..Len(new_coords) :
                      simplex[n] \in find_simplex(tri, new_coords[n])
               /\ LET built == interp_weights(tri, new_coords, simplex)
                  IN interpolator' = Some([_vtx |-> built.vertices,
                                           _wts |-> built.weights])
    /\ last' = Call("FastLinearInterpolator.__init__", "self", "", None,
                    data_shape, new_coords)
    /\ UNCHANGED <<analysis_state, response_state>>

\* FastLinearInterpolator.__call__: np.take raises IndexError for a vertex
\* past the end of the data
FastLinearInterpolator_call(data) ==
    /\ interpolator.some
    /\ LET self == interpolator.v
           fits == \A n \in 1..Len(self._vtx) :
                       \A j \in 1..3 : self._vtx[n][j] < Len(data)
       IN last' = IF fits
                  THEN Call("FastLinearInterpolator.__call__", "self", "",
                            Some(interpolate(data, self._vtx, self._wts)),
                            data, 0)
                  ELSE Call("FastLinearInterpolator.__call__", "self",
                            "IndexError", None, data, 0)
    /\ UNCHANGED interpolator
    /\ UNCHANGED <<analysis_state, response_state>>

\* No interpolator is built yet
InterpInit ==
    /\ hal = [h \in Instances |-> NoInstance]
    /\ modelSrc = InitialSources
    /\ parallel = FALSE
    /\ last = NoCall
    /\ _instances = <<>>
    /\ heap = <<>>
    /\ interpolator = None

InterpNext ==
    \/ \E data_shape \in Shapes, new_coords \in NewCoords :
           FastLinearInterpolator_init(data_shape, new_coords)
    \/ \E data \in Fields : FastLinearInterpolator_call(data)

InterpSpec == InterpInit /\ [][InterpNext]_vars

\* -------------------------------------------------------- display_spectrum
\* The total count from which display_spectrum takes the Gaussian limit
gaussian_limit == 50

\* gaussian_regime leaving a total of exactly gaussian_limit to the
\* low-counts branch
gaussian_regime_above_only(this_data_tot) == this_data_tot > gaussian_limit

\* this_data_tot >= 50.0
gaussian_regime(this_data_tot) == this_data_tot >= gaussian_limit

\* np.sum of a map of the bin
this_data_tot(I, i) == SumOver(I.maptree[i].observation_map, Pixels)
this_bkg_tot(I, i) == SumOver(I.maptree[i].background_map, Pixels)

\* np.sum(this_model_map_hpx): the scalar 0.0 sums to 0
this_model_tot(I, i, src) ==
    SumOver([p \in Pixels |->
                ModelAt(get_expectation(I, i, src.npts, src.next), p)],
            Pixels)

RECURSIVE isqrt(_)
\* the integer part of np.sqrt(n)
isqrt(n) ==
    IF n < 2 THEN n
    ELSE LET s == 2 * isqrt(n \div 4)
         IN IF (s + 1) * (s + 1) <= n THEN s + 1 ELSE s

\* residuals[i] of the Gaussian branch,
\* (this_data_tot - this_wh_model) / np.sqrt(this_wh_model), in tenths
residual(I, i, src) ==
    LET this_wh_model == this_model_tot(I, i, src) + this_bkg_tot(I, i)
    IN (100 * (this_data_tot(I, i) - this_wh_model))
           \div isqrt(100 * this_wh_model)

\* The bins of the selection that do not reach the Gaussian limit
low_counts(I) ==
    {i \in I.active_planes : ~gaussian_regime(this_data_tot(I, i))}

\* The bins the loop of display_spectrum calls _get_expectation for: the
\* selection up to and with its first bin of low counts
displayed_bins(I) ==
    {i \in I.active_planes : \A j \in low_counts(I) : i <= j}

\* HAL.display_spectrum: the value is the array residuals, by bin
display_spectrum(h) ==
    /\ Live(h)
    /\ LET I == hal[h] IN
       IF ~I.likelihood_model.some
       THEN /\ last' = Call("display_spectrum", h, "AttributeError", None, 0, 0)
            /\ hal' = hal
       ELSE LET src == modelSrc[I.likelihood_model.v]
                err == expectation_error(I, src.npts, src.next)
                after == after_expectations(I, displayed_bins(I),
                                            src.npts, src.next)
            IN /\ FluxBounded(after)
               /\ hal' = [hal EXCEPT ![h] = after]
               /\ last' =
                      IF I.active_planes # {} /\ err # ""
                      THEN Call("display_spectrum", h, err, None, 0, 0)
                      ELSE IF low_counts(I) # {}
                      THEN Call("display_spectrum", h, "NotImplementedError",
                                None, 0, 0)
                      ELSE IF I.active_planes = {}
                      THEN Call("display_spectrum", h, "ValueError", None, 0, 0)
                      ELSE Call("display_spectrum", h, "",
                                Some([i \in I.active_planes |->
                                         residual(I, i, src)]),
                                0, 0)
    /\ UNCHANGED <<modelSrc, parallel>>
    /\ UNCHANGED <<response_state, interpolation_state>>

\* The map trees of the analyses that display the spectrum: the total
\* observed count of a bin is gaussian_limit + d[i], the background lies
\* five counts per pixel below the even share of gaussian_limit
DisplayMapTreeOf(d) ==
    [i \in Bins |->
        DataAnalysisBin(
            [p \in Pixels |->
                (gaussian_limit \div NPix)
                + (IF p = 1 THEN (gaussian_limit % NPix) + d[i] ELSE 0)],
            [p \in Pixels |-> (gaussian_limit \div NPix) - 5])]

\* Datasets with totals below, at and above the limit, in every bin in
\* turn, and datasets whose totals are all at or above the limit
DisplayMapTrees ==
    { DisplayMapTreeOf([i \in Bins |-> ((c + i) % 3) - 1]) : c \in {0, 1, 2} }
    \cup { DisplayMapTreeOf([i \in Bins |-> (c + i) % 2]) : c \in {0, 1} }

DisplayInit ==
    /\ \E maptree \in DisplayMapTrees :
           hal = [h \in Instances |->
                     IF h = "self" THEN NewHAL("HAWC", maptree) ELSE NoInstance]
    /\ modelSrc = InitialSources
    /\ parallel = FALSE
    /\ last = NoCall
    /\ _instances = <<>>
    /\ heap = <<>>
    /\ interpolator = None

DisplayNext ==
    \/ \E m \in ModelIds : set_model("self", m)
    \/ \E m \in EditedModels, kind \in {"npts", "next"} : add_source(m, kind)
    \/ \E m \in EditedModels, kind \in {"npts", "next"} : remove_source(m, kind)
    \/ \E a \in Bins, b \in Bins : set_active_measurements("self", a, b)
    \/ display_spectrum("self")

DisplaySpec == DisplayInit /\ [][DisplayNext]_vars

\* ------------------------------------------------- models of many sources
\* The likelihood models of the analyses that look at the expectation: next
\* to the models 1 and 2, a model of two extended sources, one of two point
\* and two extended sources, and one without any source
ManyModels == {1, 2, 3, 4, 5}

ManySources ==
    [m \in {CopiedModel} \cup ManyModels |->
        IF m \in {CopiedModel, 1, 2} THEN InitialSources[m]
        ELSE IF m = 3 THEN [npts |-> 0, next |-> 2]
        ELSE IF m = 4 THEN [npts |-> 2, next |-> 2]
        ELSE [npts |-> 0, next |-> 0]]

ExpInit ==
    /\ \E maptree \in SimMapTrees :
           hal = [h \in Instances |->
                     IF h = "self" THEN NewHAL("HAWC", maptree) ELSE NoInstance]
    /\ modelSrc = ManySources
    /\ parallel = FALSE
    /\ last = NoCall
    /\ _instances = <<>>
    /\ heap = <<>>
    /\ interpolator = None

ExpNext ==
    \/ \E m \in ManyModels : set_model("self", m)
    \/ \E a \in Bins, b \in Bins : set_active_measurements("self", a, b)
    \/ get_log_like("self")

ExpSpec == ExpInit /\ [][ExpNext]_vars

\* ---------------------------------------------------------------- response
\* The response files of the session, by name: the centres of the
\* declination bins (the branch simdec of the tree DecBins, in file order;
\* the bins of a response are disjoint, so their centres are distinct) and
\* the ids of the analysis bins.  No file of the last name exists.
FileNames ==
    {"aligned.root", "misaligned.root", "offzero.root", "north.root",
     "missing.root"}

ResponseFile(response_file_name) ==
    CASE response_file_name = "aligned.root" ->
             [dec_bins_center |-> <<5, 0, -5>>,
              response_bins_ids |-> [k \in 1..NBins |-> k - 1]]
      [] response_file_name = "misaligned.root" ->
             [dec_bins_center |-> <<0, 10>>,
              response_bins_ids |-> [k \in 1..(NBins + 1) |-> k - 1]]
      [] response_file_name = "offzero.root" ->
             [dec_bins_center |-> <<-5, 5>>,
              response_bins_ids |-> [k \in 1..NBins |-> k - 1]]
      [] response_file_name = "north.root" ->
             [dec_bins_center |-> <<30, 10, 20>>,
              response_bins_ids |-> [k \in 1..(NBins + 1) |-> k - 1]]

file_existing_and_readable(response_file_name) ==
    response_file_name # "missing.root"

\* The declinations asked for: the centres of the ROIs
Declinations == {-30, -5, -3, 0, 2, 5, 15, 25, 40}

\* collections.OrderedDict as the sequence of its items, in insertion
\* order: d[key] = value replaces the value of a key that is present and
\* appends the item otherwise
OrderedDictSet(d, key, value) ==
    IF \E n \in 1..Len(d) : d[n].key = key
    THEN [n \in 1..Len(d) |->
             IF d[n].key = key THEN [key |-> key, value |-> value] ELSE d[n]]
    ELSE Append(d, [key |-> key, value |-> value])

\* key in d, and d[key] where it is
OrderedDictHas(d, key) == \E n \in 1..Len(d) : d[n].key = key
OrderedDictGet(d, key) == d[CHOOSE n \in 1..Len(d) : d[n].key = key].value

\* The list this_response_bins of declination bin dec_id (counted from 0):
\* one ResponseBin per analysis bin id
this_response_bins(f, dec_id) ==
    [k \in 1..Len(f.response_bins_ids) |->
        [dec_id |-> dec_id,
         analysis_bin_id |-> f.response_bins_ids[k],
         dec_center |-> f.dec_bins_center[dec_id + 1]]]

RECURSIVE response_bins_of(_, _)
\* self._response_bins after the first n declination bins of the file
response_bins_of(f, n) ==
    IF n = 0 THEN <<>>
    ELSE OrderedDictSet(response_bins_of(f, n - 1),
                        f.dec_bins_center[n],
                        this_response_bins(f, n - 1))

\* The object HAWCResponse.__init__ builds from a readable file
HAWCResponse(response_file_name) ==
    LET f == ResponseFile(response_file_name) IN
    [response_file_name |-> response_file_name,
     dec_bins |-> f.dec_bins_center,
     response_bins |-> response_bins_of(f, Len(f.dec_bins_center))]

\* abs(dec_bins_keys[i] - dec)
abs_distance(key, dec) == IF key >= dec THEN key - dec ELSE dec - key

RECURSIVE py_min(_, _, _)
\* Python's min(range(n), key=...) over the keys: the indices are visited
\* in order and an index replaces the best one only when its key value is
\* strictly smaller.  Indices count from 0.
py_min(dec_bins_keys, dec, n) ==
    IF n = 1 THEN 0
    ELSE LET best == py_min(dec_bins_keys, dec, n - 1)
         IN IF abs_distance(dec_bins_keys[n].key, dec)
                   < abs_distance(dec_bins_keys[best + 1].key, dec)
            THEN n - 1 ELSE best

\* py_min keeping the later of two equally near keys
closest_dec_id_last_wins(resp, dec) ==
    LET d == resp.response_bins
        best == CHOOSE i \in 1..Len(d) :
                    /\ \A j \in 1..Len(d) :
                           abs_distance(d[i].key, dec) <= abs_distance(d[j].key, dec)
                    /\ \A j \in (i + 1)..Len(d) :
                           abs_distance(d[i].key, dec) < abs_distance(d[j].key, dec)
    IN best - 1

\* closest_dec_id of HAWCResponse.get_response_dec_bin
closest_dec_id(resp, dec) ==
    py_min(resp.response_bins, dec, Len(resp.response_bins))

\* HAWCResponse.get_response_dec_bin(dec): the response bins and the index
response_dec_bin(resp, dec) ==
    LET id == closest_dec_id(resp, dec)
    IN [response_bins |->
            OrderedDictGet(resp.response_bins, resp.response_bins[id + 1].key),
        dec_bin_id |-> id]

\* HAWCResponse.n_energy_planes: len(self._response_bins[0]), None where
\* the lookup of the key 0 raises KeyError
n_energy_planes(resp) ==
    IF OrderedDictHas(resp.response_bins, 0)
    THEN Some(Len(OrderedDictGet(resp.response_bins, 0)))
    ELSE None

\* in_cache looking nothing up: every call builds
in_cache_never(cache, response_file_name) == FALSE

\* response_file_name in _instances
in_cache(cache, response_file_name) == response_file_name \in DOMAIN cache

\* hawc_response_factory(response_file_name) on the cache and the objects
\* built: what it raises, the object it returns (its place in heap) and the
\* cache and the objects after it
response_factory(cache, objects, response_file_name) ==
    IF in_cache(cache, response_file_name)
    THEN [raised |-> "", obj |-> cache[response_file_name],
          cache |-> cache, objects |-> objects]
    ELSE IF ~file_existing_and_readable(response_file_name)
    THEN [raised |-> "IOError", obj |-> 0, cache |-> cache, objects |-> objects]
    ELSE [raised |-> "", obj |-> Len(objects) + 1,
          cache |-> [n \in DOMAIN cache \cup {response_file_name} |->
                        IF n = response_file_name THEN Len(objects) + 1
                        ELSE cache[n]],
          objects |-> Append(objects, HAWCResponse(response_file_name))]

hawc_response_factory(response_file_name) ==
    LET r == response_factory(_instances, heap, response_file_name) IN
    /\ _instances' = r.cache
    /\ heap' = r.objects
    /\ last' = Call("hawc_response_factory", "self", r.raised,
                    IF r.raised = "" THEN Some(r.obj) ELSE None,
                    response_file_name, 0)
    /\ UNCHANGED <<analysis_state, interpolation_state>>

get_response_dec_bin(obj, dec) ==
    /\ obj \in 1..Len(heap)
    /\ last' = Call("get_response_dec_bin", "self", "",
                    Some(response_dec_bin(heap[obj], dec)), obj, dec)
    /\ UNCHANGED <<analysis_state, response_state, interpolation_state>>

\* The assertion of HAL.__init__
aligned(n_analysis_bins, planes) == n_analysis_bins = planes

\* HAL.__init__ up to the choice of the central response bins, on a map
\* tree of NBins analysis bins: the response comes from the factory, the
\* alignment is asserted, and the response bins nearest to the ROI's
\* declination are picked.  (The rest of the construction is NewHAL.)
HAL_init(response_file, dec) ==
    LET r == response_factory(_instances, heap, response_file)
        planes == n_energy_planes(r.objects[r.obj])
        raised == IF r.raised # "" THEN r.raised
                  ELSE IF ~planes.some THEN "KeyError"
                  ELSE IF ~aligned(NBins, planes.v) THEN "AssertionError"
                  ELSE ""
    IN /\ _instances' = r.cache
       /\ heap' = r.objects
       /\ last' = Call("HAL.__init__", "self", raised,
                       IF raised = ""
                       THEN Some([response |-> r.obj,
                                  central |->
                                      response_dec_bin(r.objects[r.obj], dec)])
                       ELSE None,
                       response_file, dec)
       /\ UNCHANGED <<analysis_state, interpolation_state>>

\* The session that builds responses and constructs analyses on them
RespInit ==
    /\ hal = [h \in Instances |-> NoInstance]
    /\ modelSrc = InitialSources
    /\ parallel = FALSE
    /\ last = NoCall
    /\ _instances = <<>>
    /\ heap = <<>>
    /\ interpolator = None

RespNext ==
    \/ \E f \in FileNames : hawc_response_factory(f)
    \/ \E f \in FileNames, dec \in Declinations : HAL_init(f, dec)
    \/ \E obj \in 1..Len(heap), dec \in Declinations :
           get_response_dec_bin(obj, dec)

RespSpec == RespInit /\ [][RespNext]_vars

\* ------------------------------------------------------------------ claims
\* The raw Poisson log-likelihood of the spec, raw(o, b, x) = sum over the
\* pixels of o * log(b + x) - (b + x), for a model array x, in thousandths
Raw(o, b, x) ==
    SumOver([p \in Pixels |-> o[p] * Ln(b[p] + x[p]) - 1000 * (b[p] + x[p])],
            Pixels)

\* max(o - b, eps) under the rounding of b + eps: the addend that brings the
\* background to the saturated prediction
SatOf(o, b) == [p \in Pixels |-> IF o[p] > b[p] THEN o[p] - b[p] ELSE 0]

LogFactorialOf(o) == SumOver([p \in Pixels |-> logfactorial(o[p])], Pixels)

Obs(h, i) == hal[h].maptree[i].observation_map
Bkg(h, i) == hal[h].maptree[i].background_map

\* The expectation of bin i as an array, for the sources of the model the
\* instance holds
ExpectedOf(h, i) ==
    LET src == modelSrc[hal[h].likelihood_model.v]
        m == get_expectation(hal[h], i, src.npts, src.next)
    IN [p \in Pixels |-> ModelAt(m, p)]

\* The stored bias terms of every bin are those of the bin's current maps
BiasesCurrent(h) ==
    \A i \in Bins :
        /\ hal[h].log_factorials[i] = LogFactorialOf(Obs(h, i))
        /\ hal[h].saturated_model_like_per_maptree[i] =
               Raw(Obs(h, i), Bkg(h, i), SatOf(Obs(h, i), Bkg(h, i)))
               - LogFactorialOf(Obs(h, i))

\* C1: right after set_model(M) returns, the point-source cache holds as
\* many entries as M has point sources and the extended-source cache as many
\* as M has extended sources, and every entry is one built for M in this
\* call: none built for an earlier model survives.
C1_CachesMatchModel ==
    last.op = "set_model" =>
        LET I == hal[last.inst]
            src == modelSrc[last.a]
        IN /\ I.likelihood_model = Some(last.a)
           /\ Len(I.convolved_point_sources) = src.npts
           /\ Len(I.convolved_ext_sources) = src.next
           /\ \A k \in 1..Len(I.convolved_point_sources) :
                  I.convolved_point_sources[k] =
                      [kind |-> "point", model |-> last.a, index |-> k]
           /\ \A k \in 1..Len(I.convolved_ext_sources) :
                  I.convolved_ext_sources[k] =
                      [kind |-> "ext", model |-> last.a, index |-> k]

\* C1 witness: set_model of the edited model has returned with both caches
\* empty although an earlier set_model had filled the extended-source cache
\* (the PSF convolutors it built are still there).
C1_Witness ==
    /\ last.op = "set_model" /\ last.a = 1
    /\ hal["self"].psf_convolutors.some
    /\ Len(hal["self"].convolved_ext_sources) = 0
    /\ Len(hal["self"].convolved_point_sources) = 0

\* The source counts of the model an instance holds are those of its caches
CountsAgree(h) ==
    LET src == modelSrc[hal[h].likelihood_model.v] IN
    /\ src.npts = Len(hal[h].convolved_point_sources)
    /\ src.next = Len(hal[h].convolved_ext_sources)

C2_State ==
    (last.op = "get_log_like" /\ hal[last.inst].likelihood_model.some) =>
        /\ (last.raised = "AssertionError") <=> ~CountsAgree(last.inst)
        /\ last.raised = "AssertionError" => ~last.value.some
        /\ CountsAgree(last.inst) => (last.raised = "" /\ last.value.some)

C2_Step ==
    \A h \in Instances :
        (/\ Live(h) /\ Live(h)'
         /\ hal[h].likelihood_model.some
         /\ (CountsAgree(h) \/ (last'.op = "set_model" /\ last'.inst = h))
         /\ modelSrc' = modelSrc)
        => CountsAgree(h)'

\* C2: get_log_like fails with the consistency error, and returns no
\* number, exactly when the model's point-source count differs from the
\* point-source cache count or its extended-source count from the
\* extended-source cache count; and once the counts agree (as after
\* set_model) they keep agreeing over any calls as long as no source list
\* changes, so repeated get_log_like calls do not raise it.
C2_ConsistencyError == [](C2_State) /\ [][C2_Step]_vars

\* C2 witness: get_log_like has raised the consistency error because an
\* extended source was added after set_model, the point-source counts
\* agreeing.
C2_Witness ==
    /\ last.op = "get_log_like" /\ last.raised = "AssertionError"
    /\ hal["self"].likelihood_model = Some(1)
    /\ modelSrc[1].npts = Len(hal["self"].convolved_point_sources)
    /\ modelSrc[1].next > Len(hal["self"].convolved_ext_sources)

\* C3: after a successful set_active_measurements(i, j) the active bins are
\* exactly the plane indices k with i <= k <= j, whatever was active before.
C3_ActiveIsInclusiveRange ==
    (last.op = "set_active_measurements" /\ last.raised = "") =>
        hal[last.inst].active_planes =
            {k \in Bins : last.a <= k /\ k <= last.b}

\* C3 witness: set_active_measurements(1, NBins - 1) has returned: the
\* selection shrank from the default and holds both end points.
C3_Witness ==
    /\ last.op = "set_active_measurements" /\ last.raised = ""
    /\ last.a = 1 /\ last.b = NBins - 1
    /\ hal["self"].active_planes # Bins
    /\ {last.a, last.b} \subseteq hal["self"].active_planes

C4_Step ==
    (/\ last'.op = "set_active_measurements"
     /\ ~(last'.a \in Bins /\ last'.b \in Bins))
    => /\ last'.raised = "AssertionError"
       /\ hal' = hal

\* C4: set_active_measurements(i, j) with i or j outside 0..nBins-1 fails
\* with an error and leaves the selection (and the whole instance) as it was.
C4_IllegalBinsRejected == [][C4_Step]_vars

\* C4 witness: a call with an index outside the planes has failed on an
\* instance whose selection is not the default one.
C4_Witness ==
    /\ last.op = "set_active_measurements" /\ last.raised = "AssertionError"
    /\ (last.a \notin Bins \/ last.b \notin Bins)
    /\ hal["self"].active_planes # Bins

\* C5 (as claimed): get_number_of_data_points counts the pixels of the
\* active bins only.
C5_CountsActivePixelsOnly ==
    last.op = "get_number_of_data_points" =>
        last.value.v = SumOver([i \in Bins |-> NPix], hal[last.inst].active_planes)

\* The model maps that reproduce observation - background in every bin
SaturatedMaps(h) ==
    [i \in Bins |-> Array(SatOf(Obs(h, i), Bkg(h, i)))]

\* The prediction of the model the instance holds is the saturated one in
\* every active bin
ReproducesSaturated(h) ==
    \A i \in hal[h].active_planes : \A p \in Pixels :
        Bkg(h, i)[p] + ExpectedOf(h, i)[p]
            = Bkg(h, i)[p] + SatOf(Obs(h, i), Bkg(h, i))[p]

\* What get_saturated_model_likelihood returns on the instance
ReferenceLikelihood(h) ==
    SumOver(hal[h].saturated_model_like_per_maptree, Bins)

\* C6 (as claimed): get_log_like evaluated with a model whose prediction is
\* the saturated model in every active bin returns what
\* get_saturated_model_likelihood returns (stated here for a selection that
\* is not empty).
C6_SaturatedEqualsReference ==
    (/\ last.op = "get_log_like" /\ last.raised = ""
     /\ hal[last.inst].active_planes # {}
     /\ ReproducesSaturated(last.inst))
    => last.value.v = ReferenceLikelihood(last.inst)

C6_State ==
    \A h \in Instances :
        (Live(h) /\ BiasesCurrent(h)) =>
            ScoreWith(hal[h], SaturatedMaps(h)) = 0

\* A get_log_like call on h returns: the unprimed state is the one the call
\* starts in
Returns(h) ==
    /\ last'.op = "get_log_like" /\ last'.inst = h /\ last'.raised = ""
    /\ Live(h) /\ hal[h].likelihood_model.some

C6_Step ==
    \A h \in Instances :
        (Returns(h) /\ BiasesCurrent(h) /\ ReproducesSaturated(h))
            => last'.value.v = 0

\* C6 (amended): on an instance whose stored bias terms are those of its
\* current maps, get_log_like evaluated with the saturated model returns 0
\* for every dataset and every selection of active bins, because the
\* saturated-model likelihood is already subtracted as the bias.  It holds of
\* the scoring loop for the saturated maps of every reachable instance, and
\* of every get_log_like call whose model reproduces the saturated
\* prediction when the call is made.
C6_SaturatedScoresZero == [](C6_State) /\ [][C6_Step]_vars

\* C6 witness: get_log_like has returned 0 for a model that reproduces the
\* saturated prediction in the active bins, of which there is one at least,
\* while get_saturated_model_likelihood would return another value.
C6_Witness ==
    /\ last.op = "get_log_like" /\ last.raised = "" /\ last.value.v = 0
    /\ hal[last.inst].active_planes # {}
    /\ Len(hal[last.inst].convolved_point_sources) > 0
    /\ ReproducesSaturated(last.inst)
    /\ BiasesCurrent(last.inst)
    /\ ReferenceLikelihood(last.inst) # 0

\* C7 (as claimed): get_log_like returns the sum over the active bins of
\* raw(o, b, m) - logFactorial(o) - raw(o, b, max(o - b, eps)).
C7_SumAsClaimed ==
    (last.op = "get_log_like" /\ last.raised = "") =>
        last.value.v =
            SumOver([i \in Bins |->
                        Raw(Obs(last.inst, i), Bkg(last.inst, i),
                            ExpectedOf(last.inst, i))
                        - LogFactorialOf(Obs(last.inst, i))
                        - Raw(Obs(last.inst, i), Bkg(last.inst, i),
                              SatOf(Obs(last.inst, i), Bkg(last.inst, i)))],
                    hal[last.inst].active_planes)

C7_Step ==
    \A h \in Instances :
        Returns(h) =>
            /\ last'.value.v =
                   SumOver([i \in Bins |->
                               Raw(Obs(h, i), Bkg(h, i), ExpectedOf(h, i))
                               - hal[h].log_factorials[i]
                               - hal[h].saturated_model_like_per_maptree[i]],
                           hal[h].active_planes)
            /\ BiasesCurrent(h) =>
                   last'.value.v =
                       SumOver([i \in Bins |->
                                   Raw(Obs(h, i), Bkg(h, i), ExpectedOf(h, i))
                                   - Raw(Obs(h, i), Bkg(h, i),
                                         SatOf(Obs(h, i), Bkg(h, i)))],
                               hal[h].active_planes)

\* C7 (amended): get_log_like returns the sum, over exactly the active bins,
\* of raw(o, b, m) - L - S with m the expectation of the call and L and S the
\* bin's stored log-factorial and saturated-model terms, each applied once;
\* S is stored as raw(o, b, max(o - b, eps)) - logFactorial(o), so with bias
\* terms of the current maps the value is the sum of
\* raw(o, b, m) - raw(o, b, max(o - b, eps)).
C7_SumOverActiveBins == [][C7_Step]_vars

\* C7 witness: get_log_like has returned a value other than 0 for a model
\* with a point and an extended source, with some bin inactive and an active
\* bin whose log-factorial is not 0.
C7_Witness ==
    /\ last.op = "get_log_like" /\ last.raised = "" /\ last.value.v # 0
    /\ Len(hal["self"].convolved_point_sources) > 0
    /\ Len(hal["self"].convolved_ext_sources) > 0
    /\ hal["self"].active_planes # Bins
    /\ \E i \in hal["self"].active_planes : hal["self"].log_factorials[i] # 0

\* The instance as it is when a call starts: an instance the call creates
\* starts as the copy of the caller
Before(h) == IF Live(h) THEN hal[h] ELSE hal["self"]

C8_Step ==
    last'.op = "get_simulated_dataset" =>
        \A h \in Instances :
            Live(h)' =>
                \A i \in Bins :
                    /\ i \notin hal["self"].active_planes =>
                           hal'[h].maptree[i].observation_map
                               = Before(h).maptree[i].observation_map
                    /\ hal'[h].maptree[i].background_map
                           = Before(h).maptree[i].background_map

\* C8: a get_simulated_dataset call overwrites observation maps only of bins
\* that are active when it is called: on the host (and on every instance)
\* the observation map of every inactive bin and the background map of
\* every bin are the same before and after the call.
C8_OnlyActiveBinsRedrawn == [][C8_Step]_vars

\* C8 witness: a simulation has returned the deep copy, with a bin inactive
\* and the observation of an active bin differing from the caller's.
C8_Witness ==
    /\ last.op = "get_simulated_dataset" /\ last.raised = ""
    /\ last.value.v = "clone"
    /\ hal["self"].active_planes # Bins
    /\ \E i \in hal["self"].active_planes :
           hal["clone"].maptree[i].observation_map
               # hal["self"].maptree[i].observation_map
    /\ \A i \in Bins \ hal["self"].active_planes :
           hal["clone"].maptree[i].observation_map
               = hal["self"].maptree[i].observation_map

C9_Step ==
    /\ hal["self"].clone.some => hal'["self"].clone = hal["self"].clone
    /\ (~hal["self"].clone.some /\ last'.op # "get_simulated_dataset") =>
           ~hal'["self"].clone.some
    /\ (/\ hal["self"].clone.some
        /\ last'.op = "get_simulated_dataset" /\ last'.raised = "") =>
           last'.value.v = hal["self"].clone.v.host

\* C9: the simulation cache (host, per-bin expectations) is written once, by
\* the first get_simulated_dataset call that gets that far: no call of
\* set_model, set_active_measurements, get_log_like or
\* get_simulated_dataset changes it afterwards, and every later
\* get_simulated_dataset that returns, returns the cached host.
C9_SimulationCacheWrittenOnce == [][C9_Step]_vars

\* The expectations a first call would cache now
FreshExpectations(h) ==
    [i \in Bins |->
        [p \in Pixels |-> ExpectedOf(h, i)[p] + Bkg(h, i)[p]]]

\* C9 witness: a simulation has returned although the cached expectation of
\* an active bin is not the one of the model the caller holds now.
C9_Witness ==
    /\ last.op = "get_simulated_dataset" /\ last.raised = ""
    /\ hal["self"].clone.some
    /\ \E i \in hal["self"].active_planes :
           /\ hal["self"].clone.v.expectations[i].some
           /\ hal["self"].clone.v.expectations[i].v # FreshExpectations("self")[i]

\* What get_simulated_dataset must leave alone on a caller that is not the
\* host
CallerView(I) ==
    <<I.maptree, I.log_factorials, I.saturated_model_like_per_maptree,
      I.name, I.active_planes>>

C10_Step ==
    last'.op = "get_simulated_dataset" =>
        IF parallel
        THEN /\ ~Live("clone")'
             /\ last'.raised = "" => last'.value.v = "self"
        ELSE /\ CallerView(hal'["self"]) = CallerView(hal["self"])
             /\ last'.raised = "" =>
                    (last'.value.v = "clone" /\ Live("clone")')

\* C10: outside a parallel computation the host get_simulated_dataset
\* returns is a deep copy, another instance than the caller, and the call
\* leaves the caller's maps, bias terms, name and selection unchanged;
\* inside one the host is the caller and no copy is made.
C10_HostIsCopyUnlessParallel == [][C10_Step]_vars

\* C10 witness: outside a parallel computation a simulation has returned the
\* copy, renamed and with other observations than the caller, which kept
\* its name.
C10_Witness ==
    /\ ~parallel
    /\ last.op = "get_simulated_dataset" /\ last.raised = ""
    /\ last.value.v = "clone"
    /\ hal["clone"].name = "sim" /\ hal["self"].name = "HAWC"
    /\ hal["clone"].maptree # hal["self"].maptree
    /\ hal["clone"].log_factorials # hal["self"].log_factorials

\* C11 (as claimed): whenever construction or a public operation has
\* returned, on the caller and on the simulation host, the stored
\* log-factorial and saturated-model terms of every bin are those computed
\* from the bin's current observation and background maps.
C11_BiasesCurrentAtReturn ==
    last.raised = "" =>
        \A h \in Instances : Live(h) => BiasesCurrent(h)

\* C12 (as claimed): constructing an analysis on a readable response file
\* fails exactly when the number of analysis bins of the dataset differs
\* from the number of response bins per declination bin of the response,
\* whatever the declination centres of the response are.
C12_FailsExactlyOnMisalignment ==
    (last.op = "HAL.__init__" /\ file_existing_and_readable(last.a)) =>
        ((last.raised # "")
            <=> (NBins # Len(ResponseFile(last.a).response_bins_ids)))

\* The objects built for a file name
BuiltFor(objects, response_file_name) ==
    {o \in 1..Len(objects) : objects[o].response_file_name = response_file_name}

C13_State ==
    \A f \in FileNames : Cardinality(BuiltFor(heap, f)) <= 1

C13_Step ==
    /\ Len(heap') >= Len(heap)
    /\ \A o \in 1..Len(heap) : heap'[o] = heap[o]
    /\ (last'.op = "hawc_response_factory" /\ last'.raised = "") =>
           /\ last'.value.v \in BuiltFor(heap', last'.a)
           /\ BuiltFor(heap, last'.a) # {} =>
                  last'.value.v \in BuiltFor(heap, last'.a)

\* C13: over any sequence of hawc_response_factory calls (made directly or
\* by the construction of an analysis) at most one response object is ever
\* built per file name, no object built is replaced or changed, and every
\* call with a file name returns the object built for that name: the one
\* the first call with the name returned.
C13_OneResponsePerFileName == [](C13_State) /\ [][C13_Step]_vars

\* C13 witness: a factory call has returned the first object built although
\* another one was built after it: the call was answered from the cache.
C13_Witness ==
    /\ last.op = "hawc_response_factory" /\ last.raised = ""
    /\ Len(heap) >= 2
    /\ last.value.v = 1
    /\ heap[1].response_file_name = last.a

\* The positions (from 1, in file order) of the declination bins of a
\* response whose centre is nearest to dec
Nearest(resp, dec) ==
    {i \in 1..Len(resp.dec_bins) :
        \A j \in 1..Len(resp.dec_bins) :
            (resp.dec_bins[i] - dec) * (resp.dec_bins[i] - dec)
                <= (resp.dec_bins[j] - dec) * (resp.dec_bins[j] - dec)}

\* The answer is the declination bin at position i of the response
IsDecBin(resp, answer, i) ==
    /\ answer.dec_bin_id = i - 1
    /\ Len(answer.response_bins)
           = Len(ResponseFile(resp.response_file_name).response_bins_ids)
    /\ \A k \in 1..Len(answer.response_bins) :
           /\ answer.response_bins[k].dec_id = i - 1
           /\ answer.response_bins[k].dec_center = resp.dec_bins[i]
           /\ answer.response_bins[k].analysis_bin_id = k - 1

\* C18: get_response_dec_bin(dec), called directly or by the construction of
\* an analysis, returns the response bins of the declination bin whose
\* centre is nearest to dec, whatever the order of the bins in the file,
\* with the position of that bin; of several equally near centres it is the
\* first in file order.
C18_NearestDeclinationBin ==
    /\ last.op = "get_response_dec_bin" =>
           LET near == Nearest(heap[last.a], last.b)
               first == CHOOSE i \in near : \A j \in near : i <= j
           IN IsDecBin(heap[last.a], last.value.v, first)
    /\ (last.op = "HAL.__init__" /\ last.raised = "") =>
           LET resp == heap[last.value.v.response]
               near == Nearest(resp, last.b)
               first == CHOOSE i \in near : \A j \in near : i <= j
           IN IsDecBin(resp, last.value.v.central, first)

\* C18 witness: get_response_dec_bin has answered for a declination that
\* lies as near to two centres, and the answer is the first of the two in
\* file order, which is not the first bin of the file.
C18_Witness ==
    /\ last.op = "get_response_dec_bin"
    /\ Cardinality(Nearest(heap[last.a], last.b)) = 2
    /\ last.value.v.dec_bin_id > 0
    /\ last.value.v.dec_bin_id + 1 \in Nearest(heap[last.a], last.b)
    /\ last.value.v.dec_bin_id + 2 \in Nearest(heap[last.a], last.b)

\* The sum, cell by cell, of the flux grids the first n entries hold for bin i
GridSum(maps, n, i) ==
    [c \in Cells |-> SumOver([k \in 1..n |-> maps[k][i][c]], 1..n)]

\* project((exposure * sum of the point-source grids + exposure *
\* convolve(sum of the extended-source grids)) / flat pixel area) *
\* spherical pixel area, for the first np point and ne extended entries
ClaimedExpectation(I, i, np, ne) ==
    LET points == GridSum(I.point_source_maps, np, i)
        extended == IF ne > 0
                    THEN extended_source_image(GridSum(I.ext_source_maps, ne, i))
                    ELSE ZeroGrid
        brightness ==
            [c \in Cells |->
                (n_transits(i) * points[c] + n_transits(i) * extended[c])
                    \div project_plane_pixel_area]
        projected == flat_sky_to_healpix_transform(brightness)
    IN [p \in Pixels |-> projected[p] * nside2pixarea]

\* C15: for every bin and every number of cached point and extended sources
\* the expectation is the scalar 0 when there is no source at all, and
\* otherwise project((exposure * sum of point-source grids + exposure *
\* convolve(sum of extended-source grids)) / flat pixel area) * spherical
\* pixel area; the PSF convolution is invoked at most once per bin, on the
\* sum of all extended-source grids, and not at all without an extended
\* source.
C15_ExpectationFormula ==
    \A h \in Instances :
        Live(h) =>
            \A i \in Bins :
            \A np \in 0..Len(hal[h].point_source_maps) :
            \A ne \in 0..Len(hal[h].ext_source_maps) :
                LET e == get_expectation(hal[h], i, np, ne)
                    calls == psf_convolutor_calls(hal[h], i, ne)
                IN /\ (np = 0 /\ ne = 0) => e = Scalar0
                   /\ (np > 0 \/ ne > 0) =>
                          e = Array(ClaimedExpectation(hal[h], i, np, ne))
                   /\ Len(calls) <= 1
                   /\ ne = 0 => calls = << >>
                   /\ \A k \in 1..Len(calls) :
                          calls[k] = GridSum(hal[h].ext_source_maps, ne, i)

\* C15 witness: get_log_like has returned on an instance that caches two
\* point and two extended sources, with an active bin.
C15_Witness ==
    /\ last.op = "get_log_like" /\ last.raised = ""
    /\ Len(hal["self"].point_source_maps) = 2
    /\ Len(hal["self"].ext_source_maps) = 2
    /\ hal["self"].active_planes # {}

C16_Step ==
    \A h \in Instances :
        (last'.op = "get_log_like" /\ last'.inst = h) =>
            /\ hal'[h].point_source_maps = hal[h].point_source_maps
            /\ hal'[h].ext_source_maps = hal[h].ext_source_maps
            /\ (/\ last.op = "get_log_like" /\ last.inst = h
                /\ last.raised = "" /\ last'.raised = "")
               => last'.value = last.value

\* C16 (as claimed): for a fixed model, get_log_like leaves every cached
\* flux grid of every point and extended source as it was, and a
\* get_log_like call that follows another one directly returns the same
\* value.
C16_GridsUnchangedByEvaluation == [][C16_Step]_vars

C17_State ==
    /\ \A h \in Instances :
           (Live(h) /\ Len(hal[h].convolved_ext_sources) > 0) =>
               /\ hal[h].psf_convolutors.some
               /\ DOMAIN hal[h].psf_convolutors.v = Bins
    /\ last.op = "get_log_like" => last.raised # "TypeError"

C17_Step ==
    last'.op = "set_model" =>
        LET trace == set_model_trace(hal[last'.inst], last'.a,
                                     modelSrc[last'.a])
        IN /\ hal'[last'.inst] = trace[Len(trace)]
           /\ modelSrc[last'.a].next > 0 =>
                  hal'[last'.inst].psf_convolutors = setup_psf_convolutors
           /\ \A n \in 1..Len(trace) :
                  Len(trace[n].convolved_ext_sources) > 0 =>
                      /\ trace[n].psf_convolutors.some
                      /\ DOMAIN trace[n].psf_convolutors.v = Bins

\* C17: when the model set_model is given has an extended source, the PSF
\* convolutors are set up, one per bin, before the first extended-source
\* entry is appended; so whenever the extended-source cache is not empty,
\* also between the statements of set_model, a convolutor exists for every
\* bin index, and get_log_like never subscripts a missing one.
C17_HelpersBeforeExtendedSources == [](C17_State) /\ [][C17_Step]_vars

\* C17 witness: get_log_like has returned a value on an instance whose
\* extended-source cache holds two entries, some bin being active: the
\* convolutor of that bin has been used.
C17_Witness ==
    /\ last.op = "get_log_like" /\ last.raised = "" /\ last.value.some
    /\ Len(hal["self"].convolved_ext_sources) = 2
    /\ hal["self"].active_planes # {}
    /\ hal["self"].psf_convolutors.some

\* The totals of bin i of the instance: observed, background, and the
\* expectation of the model the instance holds
DataTot(h, i) == SumOver(Obs(h, i), Pixels)
BkgTot(h, i) == SumOver(Bkg(h, i), Pixels)
ModelTot(h, i) == SumOver(ExpectedOf(h, i), Pixels)

\* r is (data - wh) / sqrt(wh) in tenths, rounded down with the root
IsResidual(r, data, wh) ==
    \E s \in 0..(10 * wh) :
        /\ s * s <= 100 * wh /\ 100 * wh < (s + 1) * (s + 1)
        /\ r * s <= 100 * (data - wh) /\ 100 * (data - wh) < (r + 1) * s

C14_Step ==
    \A h \in Instances :
        (/\ last'.op = "display_spectrum" /\ last'.inst = h
         /\ Live(h) /\ hal[h].likelihood_model.some /\ CountsAgree(h))
        => LET active == hal[h].active_planes
               low == {i \in active : DataTot(h, i) < 50}
           IN /\ low # {} =>
                     (last'.raised = "NotImplementedError" /\ ~last'.value.some)
              /\ (low = {} /\ active # {}) =>
                     /\ last'.raised = ""
                     /\ DOMAIN last'.value.v = active
                     /\ \A i \in active :
                            IsResidual(last'.value.v[i], DataTot(h, i),
                                       ModelTot(h, i) + BkgTot(h, i))

\* C14: on an instance that holds a model whose sources are those of the
\* caches, display_spectrum fails with the not-implemented error whenever an
\* active bin has a total observed count below 50, and returns no residual
\* then; when every active bin has a total of 50 or more, each is handled by
\* the Gaussian branch with the residual
\* (data - (model + background)) / sqrt(model + background).
C14_LowCountsNotImplemented == [][C14_Step]_vars

\* C14 witness: display_spectrum has failed with the not-implemented error
\* on a bin with a total of 49 that comes after an active bin with a total
\* of exactly 50, which the Gaussian branch had handled.
C14_Witness ==
    /\ last.op = "display_spectrum" /\ last.raised = "NotImplementedError"
    /\ \E i \in hal["self"].active_planes, j \in hal["self"].active_planes :
           /\ i < j
           /\ DataTot("self", i) = 50
           /\ DataTot("self", j) = 49
           /\ \A k \in hal["self"].active_planes :
                  k < j => DataTot("self", k) >= 50

\* C20 (as claimed): whenever get_simulated_dataset has run on an instance
\* that holds its cache of expectations, after any interleaving with
\* set_active_measurements, every bin active during the call has an
\* expectation array in the cache, never the None stored for a bin that was
\* inactive at the first simulation, and the call has completed without
\* error.
C20_ActiveBinsHaveExpectations ==
    (last.op = "get_simulated_dataset" /\ hal["self"].clone.some) =>
        /\ \A i \in hal["self"].active_planes :
               hal["self"].clone.v.expectations[i].some
        /\ last.raised = ""

\* The sum of the weights of a target
WeightSum(w) == w[1] + w[2] + w[3]

C19_State ==
    interpolator.some =>
        \A n \in 1..Len(interpolator.v._wts) :
            /\ Len(interpolator.v._wts[n]) = 3
            /\ Len(interpolator.v._vtx[n]) = 3
            /\ WeightSum(interpolator.v._wts[n]) = Resolution

C19_Step ==
    last'.op = "FastLinearInterpolator.__call__" => interpolator' = interpolator

\* C19: every target point, the points outside the convex hull of the grid
\* included, has d + 1 = 3 weights that sum to exactly 1, and applying the
\* interpolator to data leaves the stored vertex indices and weights as they
\* were.
C19_WeightsSumToOne == [](C19_State) /\ [][C19_Step]_vars

\* C19 witness: the interpolator was applied to data and returned, and one of
\* its targets lies outside the convex hull: it has a negative weight, and
\* its weights sum to 1.
C19_Witness ==
    /\ last.op = "FastLinearInterpolator.__call__" /\ last.raised = ""
    /\ interpolator.some
    /\ \E n \in 1..Len(interpolator.v._wts) :
           /\ \E j \in 1..3 : interpolator.v._wts[n][j] < 0
           /\ WeightSum(interpolator.v._wts[n]) = Resolution

\* C21 (as claimed): after any sequence of set_active_measurements calls
\* that succeeded, starting from the default of all bins active, the
\* selection of every instance is a non-empty contiguous range of valid
\* plane indices.
C21_SelectionNonEmptyRange ==
    \A h \in Instances :
        Live(h) =>
            /\ hal[h].active_planes # {}
            /\ \E a \in Bins, b \in Bins : hal[h].active_planes = a..b

\* C22 (as claimed): outside a parallel computation, whenever
\* get_simulated_dataset has returned, the selection of the host it returned
\* is the caller's current selection, so that the bins the host's
\* get_log_like scores are the bins whose observations were just redrawn.
C22_HostSelectionIsCallers ==
    (~parallel /\ last.op = "get_simulated_dataset" /\ last.raised = "") =>
        hal[last.value.v].active_planes = hal["self"].active_planes

====
